---- MODULE Spec2Model ----
(***************************************************************************)
(* URL shortener: the final iteration of the server (ShortUrlHandler,      *)
(* RedirectHandler, InfoHandler and the ShortUrl methods) over a Redis     *)
(* key-value store.  Every handler is split at its backend calls: one      *)
(* action is one rdb.Get / rdb.Set together with the local computation     *)
(* that follows it up to the next backend call.                            *)
(***************************************************************************)
EXTENDS Integers, Sequences, FiniteSets, TLC

(* ------------------------------------------------------------------ *)
(* Bounds and input domains                                            *)
(* ------------------------------------------------------------------ *)

\* number of requests accepted in one behaviour: overlapping requests
\* (Spec) and requests served one after the other (SeqSpec)
MaxRequests == 3
MaxSeqRequests == 4

\* the position, among the requests served one after the other (RetrySpec),
\* of the request that repeats the failed request before it
RetryAt == 3

\* number of backend calls that fail in one behaviour
MaxFaults == 1

\* statistics requests, and redirects served to one record before them, in
\* the behaviours that begin with two stored records
MaxStatsRequests == 3
MaxVisits == 1

\* request workers (net/http runs every request on its own goroutine)
Procs == {1, 2}

\* original urls a caller may submit: the rejected empty url, a url, and a
\* string that callers also submit as a custom suffix
Urls == {"", "u1", "a1"}

\* the 11-character strings generateRandomUrlSafeString can return
Suffixes == {"s1", "s2"}

\* custom suffixes a caller may submit: none, an alias (which is also
\* submitted as an original url), and a string that is also a suffix
Customs == {"", "a1", "s1"}

\* path tokens of redirect and stats requests
Tokens == {"s1", "s2", "a1"}

\* instants (unix seconds) time.Now() can return: the second is more than
\* 30 days after the first
Instants == {1639000000, 1641800000}

(* ------------------------------------------------------------------ *)
(* Program constants                                                   *)
(* ------------------------------------------------------------------ *)

\* time.Hour * 24 * 30, in seconds
ThirtyDays == 2592000

\* time.Date(2021, time.January, 1, 0, 0, 0, 0, time.Local).Unix(), for UTC
ThisYear == 1609459200

\* first and third argument of hdr.New
LowestDiscernibleValue == 100000
SignificantFigures == 5

(* ------------------------------------------------------------------ *)
(* Keys and values of the store                                        *)
(* ------------------------------------------------------------------ *)

\* fmt.Sprintf("%x", sha256.Sum256([]byte(s))): a 64-digit hex string,
\* injective on the strings of the model and never an 11-character suffix
Sha256Hex(s) == "sha256:" \o s

\* a value of the store is a string: either a plain string (a suffix, held
\* by the index entries) or the JSON text of a ShortUrl
Str(s) == [str |-> s]
IsJson(v) == "json" \in DOMAIN v

\* the empty string, as rdb.Get(...).Result() returns it with redis.Nil
EmptyStr == Str("")

\* json.Marshal of a ShortUrl: the four exported fields (Distribution is
\* tagged json:"-" and is never part of the text)
Marshal(s) ==
    [json |-> [Original |-> s.Original, Default |-> s.Default,
               Custom |-> s.Custom, Metadata |-> s.Metadata]]

\* json.Unmarshal(text, &s) succeeds exactly on the JSON text of an object;
\* a suffix string and the empty string are rejected
UnmarshalOk(v) == IsJson(v)

\* json.Unmarshal were Metadata not read from the text
UnmarshalWithoutMetadata(v, s) ==
    [s EXCEPT !.Original = v.json.Original, !.Default = v.json.Default,
              !.Custom = v.json.Custom]

\* the struct after a successful json.Unmarshal: every field the text
\* carries overwrites the field of s
Unmarshal(v, s) ==
    [s EXCEPT !.Original = v.json.Original, !.Default = v.json.Default,
              !.Custom = v.json.Custom, !.Metadata = v.json.Metadata]

\* rdb.Get(ctx, k).Result(): the value, or "" with redis.Nil
GetResult(st, k) ==
    IF k \in DOMAIN st THEN [val |-> st[k], err |-> "nil"]
    ELSE [val |-> EmptyStr, err |-> "redis.Nil"]

\* rdb.Set(ctx, k, v, 0): unconditional write, no expiry
SetKey(st, k, v) == [x \in DOMAIN st \cup {k} |-> IF x = k THEN v ELSE st[x]]

(* ------------------------------------------------------------------ *)
(* hdrhistogram-go, as the handlers use it                             *)
(* ------------------------------------------------------------------ *)

RECURSIVE Pow2(_)
Pow2(n) == IF n = 0 THEN 1 ELSE 2 * Pow2(n - 1)

RECURSIVE Pow10(_)
Pow10(n) == IF n = 0 THEN 1 ELSE 10 * Pow10(n - 1)

\* 64 - bits.LeadingZeros64(v): the number of bits of v
RECURSIVE BitLen(_)
BitLen(v) == IF v = 0 THEN 0 ELSE 1 + BitLen(v \div 2)

FloorLog2(v) == BitLen(v) - 1
CeilLog2(v) == IF v = Pow2(FloorLog2(v)) THEN FloorLog2(v) ELSE FloorLog2(v) + 1
Max(a, b) == IF a >= b THEN a ELSE b

\* the geometry hdr.New derives from its three arguments
UnitMagnitude(h) == Max(FloorLog2(h.lowestDiscernibleValue), 0)
SubBucketHalfCountMagnitude(h) ==
    Max(CeilLog2(2 * Pow10(h.significantFigures)), 1) - 1
SubBucketCount(h) == Pow2(SubBucketHalfCountMagnitude(h) + 1)
SubBucketHalfCount(h) == SubBucketCount(h) \div 2

\* the loop "for smallestUntrackableValue < highestTrackableValue", with both
\* sides divided by 2^unitMagnitude (the left side is a multiple of it)
RECURSIVE BucketsNeeded(_, _)
BucketsNeeded(smallestUnits, highestUnits) ==
    IF smallestUnits < highestUnits
    THEN 1 + BucketsNeeded(2 * smallestUnits, highestUnits)
    ELSE 1

BucketCount(h) ==
    BucketsNeeded(SubBucketCount(h),
                  (h.highestTrackableValue + Pow2(UnitMagnitude(h)) - 1)
                      \div Pow2(UnitMagnitude(h)))
CountsLen(h) == (BucketCount(h) + 1) * SubBucketHalfCount(h)

\* hdr.New(lowest, highest, sig): an empty histogram; start and end time
\* are zero until set.  The time fields hold seconds: the instants of the
\* model are whole seconds, and UnixMilli() is 1000 times Unix()
hdrNew(lowest, highest, sig) ==
    [lowestDiscernibleValue |-> lowest, highestTrackableValue |-> highest,
     significantFigures |-> sig, counts |-> <<>>, totalCount |-> 0,
     startTime |-> 0, endTime |-> 0]

\* getBucketIndex, getSubBucketIdx, countsIndex of the library
BucketIndex(h, v) ==
    Max(BitLen(v), UnitMagnitude(h) + SubBucketHalfCountMagnitude(h) + 1)
        - UnitMagnitude(h) - (SubBucketHalfCountMagnitude(h) + 1)
SubBucketIndex(h, v) == v \div Pow2(BucketIndex(h, v) + UnitMagnitude(h))
CountsIndexFor(h, v) ==
    (BucketIndex(h, v) + 1) * Pow2(SubBucketHalfCountMagnitude(h))
        + SubBucketIndex(h, v) - SubBucketHalfCount(h)

\* hist.RecordValue(v) fails ("value is too large to be recorded") when the
\* index of v lies outside the counts array
RecordValueOk(h, v) == CountsIndexFor(h, v) >= 0 /\ CountsIndexFor(h, v) < CountsLen(h)

CountAt(c, i) == IF i \in DOMAIN c THEN c[i] ELSE 0
AddCount(c, i, n) == [x \in DOMAIN c \cup {i} |-> IF x = i THEN CountAt(c, i) + n ELSE c[x]]

\* the observation silently dropped
RecordValueDropped(h, v) == h

\* hist.RecordValue(v) when it succeeds: one more observation in v's bucket
RecordValue(h, v) ==
    [h EXCEPT !.counts = AddCount(h.counts, CountsIndexFor(h, v), 1),
              !.totalCount = h.totalCount + 1]

RECURSIVE SumCounts(_, _)
SumCounts(c, D) ==
    IF D = {} THEN 0
    ELSE LET i == CHOOSE x \in D : TRUE IN c[i] + SumCounts(c, D \ {i})

\* hist.Encode(hdr.V2CompressedEncodingCookieBase): the cookie, the three
\* parameters and the counts array; start time, end time and the running
\* total are not part of the encoding
NilBlob == [cookie |-> "", significantFigures |-> 0, lowest |-> 0, highest |-> 0,
            counts |-> <<>>]
Encode(h) ==
    [cookie |-> "V2Compressed", significantFigures |-> h.significantFigures,
     lowest |-> h.lowestDiscernibleValue, highest |-> h.highestTrackableValue,
     counts |-> h.counts]

\* hdr.Decode(blob) fails on anything that does not start with the cookie
DecodeOk(b) == b.cookie = "V2Compressed"

\* hdr.Decode(blob): a histogram built by hdr.New from the encoded
\* parameters, the counts filled in one by one (each adds to the total)
Decode(b) ==
    [hdrNew(b.lowest, b.highest, b.significantFigures)
        EXCEPT !.counts = b.counts,
               !.totalCount = SumCounts(b.counts, DOMAIN b.counts)]

(* ------------------------------------------------------------------ *)
(* State                                                               *)
(* ------------------------------------------------------------------ *)

VARIABLES
    store,      \* the Redis database: key -> value
    now,        \* the instant the latest call of time.Now() returned
    csvFile,    \* the content of histogram.csv
    pc,         \* per worker: the backend call it is about to make
    req,        \* per worker: the request it is serving
    shortUrl,   \* per worker: the handler's local "var shortUrl ShortUrl"
    recId,      \* per worker: the handler's local recId / recordId
    answer,     \* the response the latest step wrote, with its request
    nreq,       \* number of requests accepted so far
    nfault,     \* number of backend calls that have failed so far
    returned,   \* history: <<url, custom, suffix>> of every 200 of /shorten/
    redirected  \* history: suffix -> number of 302 answers that served it

vars == <<store, now, csvFile, pc, req, shortUrl, recId, answer, nreq, nfault,
          returned, redirected>>

\* the zero value of ShortUrl
ZeroShortUrl ==
    [Original |-> "", Default |-> "", Custom |-> "",
     Metadata |-> [CreatedAt |-> 0, Visits |-> 0, EncodedHist |-> NilBlob]]

NoReq == [op |-> "none", url |-> "", custom |-> "", token |-> ""]
NoAnswer == [req |-> NoReq, code |-> 0, msg |-> "", body |-> ZeroShortUrl]

Init ==
    /\ store = <<>>
    /\ now \in {t \in Instants : \A u \in Instants : t <= u}
    /\ csvFile = {}
    /\ pc = [p \in Procs |-> "idle"]
    /\ req = [p \in Procs |-> NoReq]
    /\ shortUrl = [p \in Procs |-> ZeroShortUrl]
    /\ recId = [p \in Procs |-> ""]
    /\ answer = NoAnswer
    /\ nreq = 0
    /\ nfault = 0
    /\ returned = {}
    /\ redirected = [s \in Suffixes |-> 0]

\* a worker that is not serving a request
Free(p) == pc[p] = "idle"

\* workers are interchangeable: a request is taken by the first free one
FirstFree(p) == Free(p) /\ \A q \in Procs : Free(q) => p <= q

\* the handler goes on to its next backend call with locals s and r
Continue(p, label, s, r) ==
    /\ pc' = [pc EXCEPT ![p] = label]
    /\ shortUrl' = [shortUrl EXCEPT ![p] = s]
    /\ recId' = [recId EXCEPT ![p] = r]
    /\ answer' = NoAnswer
    /\ UNCHANGED req

\* the answer to request r
Answer(r, code, msg, body) == [req |-> r, code |-> code, msg |-> msg, body |-> body]

\* the handler returns: the response is written, the handler's locals are
\* gone and the worker is free again
Reply(p, code, msg, body) ==
    /\ pc' = [pc EXCEPT ![p] = "idle"]
    /\ answer' = Answer(req[p], code, msg, body)
    /\ req' = [req EXCEPT ![p] = NoReq]
    /\ shortUrl' = [shortUrl EXCEPT ![p] = ZeroShortUrl]
    /\ recId' = [recId EXCEPT ![p] = ""]

\* http.Error(w, msg, code)
Error(p, code, msg) == Reply(p, code, msg, ZeroShortUrl)

\* a request accepted without the check for an empty url or token
AcceptUnchecked(p, r, first, emptyMsg) ==
    /\ FirstFree(p)
    /\ nreq' = nreq + 1
    /\ pc' = [pc EXCEPT ![p] = first]
    /\ req' = [req EXCEPT ![p] = r]
    /\ shortUrl' = [shortUrl EXCEPT ![p] = [ZeroShortUrl EXCEPT !.Original = r.url]]
    /\ answer' = NoAnswer
    /\ UNCHANGED <<recId, store, now, csvFile, nfault, returned, redirected>>

\* a request is accepted by worker p and its first check is made: an empty
\* url or token is answered 400 at once
Accept(p, r, first, emptyMsg) ==
    /\ FirstFree(p)
    /\ nreq' = nreq + 1
    /\ IF r.url = "" /\ r.token = ""
       THEN /\ answer' = Answer(r, 400, emptyMsg, ZeroShortUrl)
            /\ UNCHANGED <<pc, req, shortUrl, recId>>
       ELSE /\ pc' = [pc EXCEPT ![p] = first]
            /\ req' = [req EXCEPT ![p] = r]
            /\ shortUrl' = [shortUrl EXCEPT ![p] = [ZeroShortUrl EXCEPT !.Original = r.url]]
            /\ answer' = NoAnswer
            /\ UNCHANGED recId
    /\ UNCHANGED <<store, now, csvFile, nfault, returned, redirected>>

\* time.Now(): the clock never runs backwards, so a call returns the
\* instant of the latest earlier call or a later one
TimeNow(prev) == {t \in Instants : t >= prev}

\* a value read as a Go string and compared with another string
StrOf(v) == IF IsJson(v) THEN "{json}" ELSE v.str

\* the labels at which a worker is about to call the backend
BackendLabels ==
    {"getByOriginal", "getRecord", "generateUniqueSuffix", "checkCustom",
     "write1", "write2", "write3",
     "redirectGet", "redirectGetHash", "redirectGetRecord", "updateSet",
     "infoGet", "infoGetHash", "infoGetRecord"}

\* a failure that strikes between two writes of updateMetadata, were Visits
\* stored by a write of its own ahead of the histogram
BackendFailTornWrite(p) ==
    /\ pc[p] \in BackendLabels
    /\ nfault < MaxFaults
    /\ nfault' = nfault + 1
    /\ Error(p, 500, "backend")
    /\ store' = IF pc[p] = "updateSet"
                THEN [store EXCEPT ![shortUrl[p].Default].json.Metadata.Visits = @ + 1]
                ELSE store
    /\ UNCHANGED <<now, csvFile, nreq, returned, redirected>>

\* a backend call returns an error other than redis.Nil (or the request is
\* cancelled, or the process dies, at that call): the handler answers 500
\* and does nothing more
BackendFail(p) ==
    /\ pc[p] \in BackendLabels
    /\ nfault < MaxFaults
    /\ nfault' = nfault + 1
    /\ Error(p, 500, "backend")
    /\ UNCHANGED <<store, now, csvFile, nreq, returned, redirected>>

(* ------------------------------------------------------------------ *)
(* ShortUrlHandler                                                     *)
(* ------------------------------------------------------------------ *)

\* the request body is read and checked; shortUrl.Original is set
ShortenStart(p, u, c) ==
    Accept(p, [op |-> "shorten", url |-> u, custom |-> c, token |-> ""],
           "getByOriginal", "required param 'url' is empty")

\* where the handler goes once shortUrl is fetched or generated: the alias
\* check when a custom suffix is given, the three writes otherwise
AfterLookup(p) == IF req[p].custom # "" THEN "checkCustom" ELSE "write1"

\* a lookup under the url itself, as before the index keys were hashes
OgHashRaw(original) == original

\* getByOriginal looks the url up under its hash
OgHash(original) == Sha256Hex(original)

\* getByOriginal: rdb.Get(ogHash)
ShortenGetOriginal(p) ==
    /\ pc[p] = "getByOriginal"
    /\ LET r == GetResult(store, OgHash(req[p].url))
           recordId == StrOf(r.val)
       IN  IF r.err = "redis.Nil"
           THEN Continue(p, "generateUniqueSuffix", shortUrl[p], "")
           ELSE IF recordId # ""
           THEN Continue(p, "getRecord", [shortUrl[p] EXCEPT !.Default = recordId], recordId)
           ELSE Continue(p, AfterLookup(p), shortUrl[p], "")
    /\ UNCHANGED <<store, now, csvFile, nreq, nfault, returned, redirected>>

\* getByOriginal: rdb.Get(recordId) and json.Unmarshal into s
ShortenGetRecord(p) ==
    /\ pc[p] = "getRecord"
    /\ LET r == GetResult(store, recId[p])
       IN  IF UnmarshalOk(r.val)
           THEN Continue(p, AfterLookup(p), Unmarshal(r.val, shortUrl[p]), "")
           ELSE Error(p, 500, "internal")
    /\ UNCHANGED <<store, now, csvFile, nreq, nfault, returned, redirected>>

\* the histogram initMetadata builds at instant t: hdr.New, then
\* SetStartTimeMs(now) and SetEndTimeMs(now + 30 days)
NewHist(t) ==
    [hdrNew(LowestDiscernibleValue, t + ThirtyDays, SignificantFigures)
        EXCEPT !.startTime = t, !.endTime = t + ThirtyDays]

\* initMetadata: created_at, and an empty histogram over the next 30 days
InitMetadata(s, t) ==
    [s EXCEPT !.Metadata.CreatedAt = t,
              !.Metadata.EncodedHist = Encode(NewHist(t))]

\* a check that takes every drawn suffix for a collision
SuffixIsFreeNever(st, sfx) == FALSE

\* no collision check: every drawn suffix is accepted
SuffixIsFreeAlways(st, sfx) == TRUE

\* generateUniqueSuffix accepts the drawn suffix when rdb.Get finds no key
\* under it
SuffixIsFree(st, sfx) == GetResult(st, sfx).err = "redis.Nil"

\* one round of generateUniqueSuffix's loop: draw, rdb.Get(suffix); a free
\* suffix ends the loop and initMetadata follows
ShortenGenerate(p) ==
    /\ pc[p] = "generateUniqueSuffix"
    /\ \E sfx \in Suffixes :
         IF SuffixIsFree(store, sfx)
         THEN \E t \in TimeNow(now) :
                /\ now' = t
                /\ Continue(p, AfterLookup(p),
                            InitMetadata([shortUrl[p] EXCEPT !.Default = sfx], t), "")
         ELSE answer' = NoAnswer /\ UNCHANGED <<now, pc, req, shortUrl, recId>>
    /\ UNCHANGED <<store, csvFile, nreq, nfault, returned, redirected>>

\* no in-use check at all, as before the check was written
CustomInUseNever(recordId, default) == FALSE

\* the custom suffix is refused when its hash is bound to another record
CustomInUse(recordId, default) == recordId # "" /\ recordId # default

\* the in-use check made after the record was written under its suffix
ShortenCheckCustomAfterWrite(p) ==
    /\ pc[p] = "checkCustom"
    /\ LET r == GetResult(store, Sha256Hex(req[p].custom))
       IN  IF CustomInUse(StrOf(r.val), shortUrl[p].Default)
           THEN /\ store' = SetKey(store, shortUrl[p].Default, Marshal(shortUrl[p]))
                /\ Error(p, 400, "custom url provided is already in use")
           ELSE /\ UNCHANGED store
                /\ Continue(p, "write1", [shortUrl[p] EXCEPT !.Custom = req[p].custom], "")
    /\ UNCHANGED <<now, csvFile, nreq, nfault, returned, redirected>>

\* rdb.Get(customHash) and the in-use check
ShortenCheckCustom(p) ==
    /\ pc[p] = "checkCustom"
    /\ LET r == GetResult(store, Sha256Hex(req[p].custom))
       IN  IF CustomInUse(StrOf(r.val), shortUrl[p].Default)
           THEN Error(p, 400, "custom url provided is already in use")
           ELSE Continue(p, "write1", [shortUrl[p] EXCEPT !.Custom = req[p].custom], "")
    /\ UNCHANGED <<store, now, csvFile, nreq, nfault, returned, redirected>>

\* the url's index entry written before the record
WriteOrderPointerFirst == <<"original", "record", "custom">>

\* the three writes of the handler, in the order it issues them: the full
\* record under the suffix, then ogHash -> suffix, then customHash -> suffix
WriteOrder == <<"record", "original", "custom">>

\* key and value of each of the three writes
WriteKey(p, w) ==
    CASE w = "record" -> shortUrl[p].Default
      [] w = "original" -> Sha256Hex(req[p].url)
      [] w = "custom" -> Sha256Hex(req[p].custom)
WriteValue(p, w) ==
    CASE w = "record" -> Marshal(shortUrl[p])
      [] w = "original" -> Str(shortUrl[p].Default)
      [] w = "custom" -> Str(shortUrl[p].Default)

\* first write: rdb.Set(shortUrl.Default, fullRecordData)
ShortenSetRecord(p) ==
    /\ pc[p] = "write1"
    /\ store' = SetKey(store, WriteKey(p, WriteOrder[1]), WriteValue(p, WriteOrder[1]))
    /\ Continue(p, "write2", shortUrl[p], "")
    /\ UNCHANGED <<now, csvFile, nreq, nfault, returned, redirected>>

\* second write: rdb.Set(ogHash, shortUrl.Default)
ShortenSetOriginal(p) ==
    /\ pc[p] = "write2"
    /\ store' = SetKey(store, WriteKey(p, WriteOrder[2]), WriteValue(p, WriteOrder[2]))
    /\ Continue(p, "write3", shortUrl[p], "")
    /\ UNCHANGED <<now, csvFile, nreq, nfault, returned, redirected>>

\* third write: rdb.Set(customHash, shortUrl.Default), then the 200 answer
\* carrying shortUrl
ShortenSetCustom(p) ==
    /\ pc[p] = "write3"
    /\ store' = SetKey(store, WriteKey(p, WriteOrder[3]), WriteValue(p, WriteOrder[3]))
    /\ Reply(p, 200, "ok", shortUrl[p])
    /\ returned' = returned \cup {<<req[p].url, req[p].custom, shortUrl[p].Default>>}
    /\ UNCHANGED <<now, csvFile, nreq, nfault, redirected>>

(* ------------------------------------------------------------------ *)
(* RedirectHandler and updateMetadata                                  *)
(* ------------------------------------------------------------------ *)

RedirectStart(p, t) ==
    Accept(p, [op |-> "redirect", url |-> "", custom |-> "", token |-> t],
           "redirectGet", "redirect url is empty")

\* updateMetadata before its write can fail in hdr.Decode or RecordValue
UpdateOk(s, t) ==
    /\ DecodeOk(s.Metadata.EncodedHist)
    /\ RecordValueOk(Decode(s.Metadata.EncodedHist), t)

\* the visit recorded in the histogram but Visits left as read
UpdateMetadataNoVisit(s, t) ==
    [s EXCEPT !.Metadata.EncodedHist = Encode(RecordValue(Decode(s.Metadata.EncodedHist), t))]

\* the struct updateMetadata serializes: the visit recorded in the histogram,
\* the histogram encoded again, Visits incremented
UpdateMetadata(s, t) ==
    [s EXCEPT !.Metadata.EncodedHist = Encode(RecordValue(Decode(s.Metadata.EncodedHist), t)),
              !.Metadata.Visits = s.Metadata.Visits + 1]

\* the text v was read: when it unmarshals, updateMetadata runs up to its
\* rdb.Set; when it does not, the handler goes on to miss
ServeRedirect(p, v, miss) ==
    IF UnmarshalOk(v)
    THEN LET s == Unmarshal(v, shortUrl[p])
         IN  \E t \in TimeNow(now) :
               /\ now' = t
               /\ IF UpdateOk(s, t)
                  THEN Continue(p, "updateSet", UpdateMetadata(s, t), "")
                  ELSE Error(p, 500, "internal")
    ELSE /\ UNCHANGED now
         /\ IF miss = "done"
            THEN Error(p, 404, "could not redirect url")
            ELSE Continue(p, miss, shortUrl[p], "")

\* rdb.Get(suffix): the token taken as a record key
RedirectGet(p) ==
    /\ pc[p] = "redirectGet"
    /\ ServeRedirect(p, GetResult(store, req[p].token).val, "redirectGetHash")
    /\ UNCHANGED <<store, csvFile, nreq, nfault, returned, redirected>>

\* rdb.Get(customHash): the token taken as a custom suffix
RedirectGetHash(p) ==
    /\ pc[p] = "redirectGetHash"
    /\ Continue(p, "redirectGetRecord", shortUrl[p],
                StrOf(GetResult(store, Sha256Hex(req[p].token)).val))
    /\ UNCHANGED <<store, now, csvFile, nreq, nfault, returned, redirected>>

\* rdb.Get(recId); no record means 404
RedirectGetRecord(p) ==
    /\ pc[p] = "redirectGetRecord"
    /\ ServeRedirect(p, GetResult(store, recId[p]).val, "done")
    /\ UNCHANGED <<store, csvFile, nreq, nfault, returned, redirected>>

\* updateMetadata's rdb.Set(s.Default, serialized), then the 302 answer
\* with Location shortUrl.Original
RedirectUpdateSet(p) ==
    /\ pc[p] = "updateSet"
    /\ store' = SetKey(store, shortUrl[p].Default, Marshal(shortUrl[p]))
    /\ Reply(p, 302, "found", [ZeroShortUrl EXCEPT !.Original = shortUrl[p].Original])
    /\ redirected' = [redirected EXCEPT ![shortUrl[p].Default] = @ + 1]
    /\ UNCHANGED <<now, csvFile, nreq, nfault, returned>>

(* ------------------------------------------------------------------ *)
(* InfoHandler and getMetadata                                         *)
(* ------------------------------------------------------------------ *)

InfoStart(p, t) ==
    Accept(p, [op |-> "info", url |-> "", custom |-> "", token |-> t],
           "infoGet", "url is empty")

\* the bucket a counts index stands for: its lowest value and its width
IndexBucket(h, i) == Max(i \div SubBucketHalfCount(h) - 1, 0)
IndexSubBucket(h, i) ==
    IF i \div SubBucketHalfCount(h) = 0 THEN i
    ELSE (i % SubBucketHalfCount(h)) + SubBucketHalfCount(h)
BarFrom(h, i) == IndexSubBucket(h, i) * Pow2(IndexBucket(h, i) + UnitMagnitude(h))
BarTo(h, i) == BarFrom(h, i) + Pow2(IndexBucket(h, i) + UnitMagnitude(h)) - 1

\* the from,to,count rows getMetadata writes for hist.Distribution(), bars
\* before this year skipped.  Only the rows with a count above zero are
\* kept here; the file also holds the zero rows that lie before them
CsvRows(h) ==
    {<<BarFrom(h, i), BarTo(h, i), h.counts[i]>> :
        i \in {j \in DOMAIN h.counts : BarFrom(h, j) >= ThisYear}}

\* the file after a writer that opened it empty writes the rows mine at its
\* own offset 0, file being what another writer has put there since: the
\* rows of mine, then the rows of file that lie past the last row of mine
Overlay(mine, file) ==
    mine \cup {r \in file : \A m \in mine : r[1] > m[1]}

\* the text v was read: when it unmarshals, getMetadata runs up to its
\* os.Create("histogram.csv"), which empties the file, and the rows wait in
\* the csv.Writer for the deferred Flush; when it does not, the handler goes
\* on to miss.  With nothing left to try the handler returns without
\* writing a response, which net/http sends as 200 with an empty body
ServeInfo(p, v, miss) ==
    IF UnmarshalOk(v)
    THEN LET s == Unmarshal(v, shortUrl[p])
         IN  IF DecodeOk(s.Metadata.EncodedHist)
             THEN /\ csvFile' = {}
                  /\ Continue(p, "infoFlush", s, "")
             ELSE /\ UNCHANGED csvFile
                  /\ Error(p, 500, "internal")
    ELSE /\ UNCHANGED csvFile
         /\ IF miss = "done"
            THEN Reply(p, 200, "", ZeroShortUrl)
            ELSE Continue(p, miss, shortUrl[p], "")

\* getMetadata returns: the deferred w.Flush() writes the rows through this
\* request's own file descriptor, f.Close(), and shortUrl.Metadata is the
\* 200 answer
InfoFlush(p) ==
    /\ pc[p] = "infoFlush"
    /\ csvFile' = Overlay(CsvRows(Decode(shortUrl[p].Metadata.EncodedHist)), csvFile)
    /\ Reply(p, 200, "metadata", [ZeroShortUrl EXCEPT !.Metadata = shortUrl[p].Metadata])
    /\ UNCHANGED <<store, now, nreq, nfault, returned, redirected>>

\* rdb.Get(suffix)
InfoGet(p) ==
    /\ pc[p] = "infoGet"
    /\ ServeInfo(p, GetResult(store, req[p].token).val, "infoGetHash")
    /\ UNCHANGED <<store, now, nreq, nfault, returned, redirected>>

\* rdb.Get(customHash)
InfoGetHash(p) ==
    /\ pc[p] = "infoGetHash"
    /\ Continue(p, "infoGetRecord", shortUrl[p],
                StrOf(GetResult(store, Sha256Hex(req[p].token)).val))
    /\ UNCHANGED <<store, now, csvFile, nreq, nfault, returned, redirected>>

\* rdb.Get(recId)
InfoGetRecord(p) ==
    /\ pc[p] = "infoGetRecord"
    /\ ServeInfo(p, GetResult(store, recId[p]).val, "done")
    /\ UNCHANGED <<store, now, nreq, nfault, returned, redirected>>

(* ------------------------------------------------------------------ *)
(* Specifications                                                      *)
(* ------------------------------------------------------------------ *)

\* the answer of a request that failed at a backend call: BackendUnavailable,
\* which the caller may answer by sending the request again
IsRetryable(a) == a.code = 500 /\ a.msg = "backend"

\* a request arrives at worker p
Arrive(p) ==
    \/ \E u \in Urls, c \in Customs : ShortenStart(p, u, c)
    \/ \E t \in Tokens : RedirectStart(p, t)
    \/ \E t \in Tokens : InfoStart(p, t)

\* worker p makes its next backend call
Step(p) ==
    \/ ShortenGetOriginal(p)
    \/ ShortenGetRecord(p)
    \/ ShortenGenerate(p)
    \/ ShortenCheckCustom(p)
    \/ ShortenSetRecord(p)
    \/ ShortenSetOriginal(p)
    \/ ShortenSetCustom(p)
    \/ RedirectGet(p)
    \/ RedirectGetHash(p)
    \/ RedirectGetRecord(p)
    \/ RedirectUpdateSet(p)
    \/ InfoGet(p)
    \/ InfoGetHash(p)
    \/ InfoGetRecord(p)
    \/ InfoFlush(p)
    \/ BackendFail(p)

\* requests overlap freely
Next ==
    \/ \E p \in Procs : nreq < MaxRequests /\ Arrive(p)
    \/ \E p \in Procs : Step(p)

Spec == Init /\ [][Next]_vars

\* requests one after the other: a request arrives only when no other
\* request is being served
Quiet == \A q \in Procs : Free(q)

SeqNext ==
    \/ \E p \in Procs : Quiet /\ nreq < MaxSeqRequests /\ Arrive(p)
    \/ \E p \in Procs : Step(p)

SeqSpec == Init /\ [][SeqNext]_vars

\* requests one after the other, the backend failing only during the
\* /shorten/ request that precedes position RetryAt; the caller then sends
\* the identical request again, and goes on with any requests
RetryArrive(p) ==
    /\ Quiet /\ IsRetryable(answer)
    /\ ShortenStart(p, answer.req.url, answer.req.custom)

RetryStep(p) ==
    /\ Step(p)
    /\ nfault' # nfault => (req[p].op = "shorten" /\ nreq = RetryAt - 1)

RetryNext ==
    \/ \E p \in Procs : Quiet /\ nreq < MaxSeqRequests /\ ~IsRetryable(answer) /\ Arrive(p)
    \/ \E p \in Procs : RetryArrive(p)
    \/ \E p \in Procs : RetryStep(p)

RetrySpec == Init /\ [][RetryNext]_vars

\* generateUniqueSuffix returns: the round of its loop that draws a suffix
\* under which no key exists
GenerateReturns(p) ==
    ShortenGenerate(p) /\ pc'[p] # "generateUniqueSuffix"

\* requests one after the other with a fair random draw: a loop that could
\* return again and again by drawing some suffix does not draw the other
\* suffixes forever
FairSeqSpec == SeqSpec /\ \A p \in Procs : SF_vars(GenerateReturns(p))

\* the struct ShortUrlHandler stores for a new url u under the drawn suffix
\* sfx at instant t, no custom suffix requested
CreatedRecord(u, sfx, t) ==
    InitMetadata([ZeroShortUrl EXCEPT !.Original = u, !.Default = sfx], t)

\* the struct after the redirects served at the instants ts, in that order
RECURSIVE Visited(_, _)
Visited(s, ts) ==
    IF ts = <<>> THEN s ELSE Visited(UpdateMetadata(s, Head(ts)), Tail(ts))

\* the instants of the redirects served to one record: the clock never runs
\* backwards
VisitTimes ==
    {ts \in UNION {[1..n -> Instants] : n \in 0..MaxVisits} :
        \A i \in 1..Len(ts), j \in 1..Len(ts) : i <= j => ts[i] <= ts[j]}

FirstInstant == CHOOSE t \in Instants : \A u \in Instants : t <= u

\* the three writes of one /shorten/ request that stores record r for url u
\* with no custom suffix
StoreCreated(st, u, r) ==
    SetKey(SetKey(SetKey(st, r.Default, Marshal(r)),
                  Sha256Hex(u), Str(r.Default)),
           Sha256Hex(""), Str(r.Default))

\* the store after "u1" and "a1" were shortened at the first instant, with
\* drawn suffixes "s1" and "s2", and redirects were then served to the two
\* records at the instants v1 and v2
StatsStore(v1, v2) ==
    LET r1 == CreatedRecord("u1", "s1", FirstInstant)
        r2 == CreatedRecord("a1", "s2", FirstInstant)
        created == StoreCreated(StoreCreated(<<>>, "u1", r1), "a1", r2)
    IN  SetKey(SetKey(created, "s1", Marshal(Visited(r1, v1))),
               "s2", Marshal(Visited(r2, v2)))

\* the latest instant of ts, or t when ts is empty
LastOf(ts, t) == IF ts = <<>> THEN t ELSE ts[Len(ts)]

\* the state after those requests, no request being served
StatsInit ==
    \E v1 \in VisitTimes, v2 \in VisitTimes :
        /\ store = StatsStore(v1, v2)
        /\ now = Max(LastOf(v1, FirstInstant), LastOf(v2, FirstInstant))
        /\ csvFile = {}
        /\ pc = [p \in Procs |-> "idle"]
        /\ req = [p \in Procs |-> NoReq]
        /\ shortUrl = [p \in Procs |-> ZeroShortUrl]
        /\ recId = [p \in Procs |-> ""]
        /\ answer = NoAnswer
        /\ nreq = 0
        /\ nfault = 0
        /\ returned = {<<"u1", "", "s1">>, <<"a1", "", "s2">>}
        /\ redirected = [s \in Suffixes |-> IF s = "s1" THEN Len(v1) ELSE Len(v2)]

\* from there on only statistics requests arrive, and they overlap freely
StatsNext ==
    \/ \E p \in Procs, t \in Tokens : nreq < MaxStatsRequests /\ InfoStart(p, t)
    \/ \E p \in Procs : InfoGet(p)
    \/ \E p \in Procs : InfoGetHash(p)
    \/ \E p \in Procs : InfoGetRecord(p)
    \/ \E p \in Procs : InfoFlush(p)
    \/ \E p \in Procs : BackendFail(p)

StatsSpec == StatsInit /\ [][StatsNext]_vars

(* ------------------------------------------------------------------ *)
(* Properties                                                          *)
(* ------------------------------------------------------------------ *)

\* the suffix keys that hold a record
Records == {s \in Suffixes : s \in DOMAIN store /\ IsJson(store[s])}
RecordAt(s) == store[s].json

\* the answers a backend failure produces
IsBackendError(a) == a.code = 500 /\ a.msg = "backend"

\* C1 (requests one after the other): all 200 answers to /shorten/ of the
\* same url without custom suffix carry the same suffix; once such an answer
\* was given, a further request for that url never reaches
\* generateUniqueSuffix and is answered 200 unless the backend fails
C1_Determinism ==
    /\ \A t1 \in returned, t2 \in returned :
         (t1[1] = t2[1] /\ t1[2] = "" /\ t2[2] = "") => t1[3] = t2[3]
    /\ \A p \in Procs :
         (req[p].op = "shorten" /\ req[p].custom = ""
            /\ \E t \in returned : t[1] = req[p].url /\ t[2] = "")
         => pc[p] # "generateUniqueSuffix"
    /\ (answer.req.op = "shorten" /\ answer.req.custom = ""
          /\ \E t \in returned : t[1] = answer.req.url /\ t[2] = "")
       => (answer.code = 200 \/ IsBackendError(answer))

\* C1 witness: a request without custom suffix is answered 200 with a record
\* that was created without custom suffix and has been visited since
C1_Witness ==
    /\ answer.req.op = "shorten" /\ answer.req.custom = "" /\ answer.code = 200
    /\ answer.body.Custom = "" /\ answer.body.Metadata.Visits >= 1

\* the answer "custom url provided is already in use"
IsAliasInUse(a) == a.code = 400 /\ a.msg = "custom url provided is already in use"

\* some 200 answer bound custom suffix a to a suffix other than s
BoundElsewhere(a, s) == \E t \in returned : t[2] = a /\ t[3] # s

\* C2 (requests one after the other): no two 200 answers with the same
\* non-empty custom suffix carry different suffixes, and a request that
\* reaches the in-use check with a custom suffix that a 200 answer bound to
\* another record's suffix is answered "already in use" (or 500 when the
\* backend fails at that call)
C2_AliasExclusivity ==
    /\ [](\A t1 \in returned, t2 \in returned :
            (t1[2] = t2[2] /\ t1[2] # "") => t1[3] = t2[3])
    /\ [][\A p \in Procs :
            (pc[p] = "checkCustom" /\ pc'[p] # "checkCustom"
               /\ BoundElsewhere(req[p].custom, shortUrl[p].Default))
            => (IsAliasInUse(answer') \/ IsBackendError(answer'))]_vars

\* C2 witness: a request is answered "already in use" for a custom suffix
\* that an earlier 200 answer bound, its url being another one
C2_Witness ==
    /\ IsAliasInUse(answer)
    /\ \E t \in returned : t[2] = answer.req.custom /\ t[1] # answer.req.url

\* C3 (requests one after the other): once /shorten/ answered 200 for url
\* with a non-empty custom suffix a and suffix s, a redirect of token s or
\* of token a that the backend does not fail is answered 302 to url
C3_CreateResolveRoundTrip ==
    (answer.req.op = "redirect" /\ ~IsBackendError(answer))
    => \A t \in returned :
         (t[2] # "" /\ answer.req.token \in {t[2], t[3]})
         => (answer.code = 302 /\ answer.body.Original = t[1])

\* hist total of a record: the sum of the counts of its decoded histogram
HistTotal(r) == Decode(r.Metadata.EncodedHist).totalCount

\* C4 (requests one after the other): every record's visits and the total
\* count of its histogram both equal the number of 302 answers that served
\* the record, by suffix or by custom suffix
C4_CountConsistency ==
    \A s \in Suffixes :
      IF s \in Records
      THEN /\ RecordAt(s).Metadata.Visits = redirected[s]
           /\ DecodeOk(RecordAt(s).Metadata.EncodedHist)
           /\ HistTotal(RecordAt(s)) = redirected[s]
      ELSE redirected[s] = 0

\* C4 witness: the second 302 for a record, this one by its custom suffix,
\* the record being of another suffix than the token
C4_Witness ==
    /\ answer.req.op = "redirect" /\ answer.code = 302
    /\ answer.req.token \notin Records
    /\ \E s \in Records : redirected[s] = 2 /\ RecordAt(s).Custom = answer.req.token

\* C5 (overlapping requests): every stored record's visits equal the total
\* count of its histogram
C5_VisitsEqualHistogramTotal ==
    \A s \in Records :
      /\ DecodeOk(RecordAt(s).Metadata.EncodedHist)
      /\ RecordAt(s).Metadata.Visits = HistTotal(RecordAt(s))

\* C5 witness: a visited record while two requests are being served, one of
\* them about to write the record again
C5_Witness ==
    /\ \E s \in Records : RecordAt(s).Metadata.Visits >= 1
    /\ \A p \in Procs : pc[p] # "idle"
    /\ \E p \in Procs : pc[p] = "updateSet"

\* C6 (overlapping requests): all 200 answers to /shorten/ of the same url
\* carry the same suffix and, while no backend call has failed, at most one
\* record holds a given original url
C6_IdempotentCreationUnderRaces ==
    /\ \A t1 \in returned, t2 \in returned : t1[1] = t2[1] => t1[3] = t2[3]
    /\ nfault = 0 =>
         \A s1 \in Records, s2 \in Records :
            RecordAt(s1).Original = RecordAt(s2).Original => s1 = s2

\* C7 (overlapping requests): the write of every redirect that is answered
\* 302 raises the stored visits of its record by one
C7_NoLostVisitUpdate ==
    [][\A p \in Procs :
         (pc[p] = "updateSet" /\ pc'[p] = "idle" /\ answer'.code = 302)
         => store'[shortUrl[p].Default].json.Metadata.Visits
              = store[shortUrl[p].Default].json.Metadata.Visits + 1]_vars

\* C8 (overlapping requests): a record stored under a suffix is never
\* replaced by a record of another original url
C8_SuffixNeverReused ==
    [][\A s \in Records : RecordAt(s)'.Original = RecordAt(s).Original]_vars

\* custom suffixes that are never submitted as an original url: their hash
\* is written as customHash only
PureAliases == Customs \ (Urls \cup {""})

\* C9 (overlapping requests): an entry of the by-alias index never changes
\* once it is written
C9_AliasBindingPermanent ==
    [][\A a \in PureAliases :
         Sha256Hex(a) \in DOMAIN store
         => store'[Sha256Hex(a)] = store[Sha256Hex(a)]]_vars

\* the index entries: the keys that hold a plain string
Pointers == {k \in DOMAIN store : ~IsJson(store[k])}

\* C10 (overlapping requests, backend failures): every index entry holds
\* the suffix of a stored record
C10_NoDanglingPointer ==
    \A k \in Pointers : store[k].str \in Records

\* C10 witness: a /shorten/ stopped after its first write: a record that no
\* index entry leads to, and no request in service
C10_Witness ==
    /\ nfault = 1
    /\ \A p \in Procs : pc[p] = "idle"
    /\ \E s \in Records : \A k \in Pointers : store[k].str # s

\* worker p is serving a redirect and takes the step that ends in a failure
\* of updateMetadata: hdr.Decode, RecordValue or Encode (answered
\* "internal"), or its rdb.Set
UpdateFails(p) ==
    /\ req[p].op = "redirect" /\ pc[p] # "idle" /\ pc'[p] = "idle"
    /\ answer'.code # 302
    /\ pc[p] = "updateSet" \/ answer'.msg = "internal"

C12_UpdateBothOrNeither ==
    [][\A p \in Procs :
         (req[p].op = "redirect" /\ pc'[p] # pc[p] /\ answer'.code # 302)
         => store' = store]_vars

\* C12 witness: a record created and visited once at the first instant,
\* then a redirect that read the clock later and was answered 500: it
\* failed at the write of updateMetadata, and the record still holds the
\* one visit
C12_Witness ==
    /\ answer.req.op = "redirect" /\ IsBackendError(answer)
    /\ nreq = 3 /\ Cardinality(returned) = 1
    /\ answer.req.token \in Records
    /\ LET r == RecordAt(answer.req.token)
           h == Decode(r.Metadata.EncodedHist)
       IN  /\ r.Metadata.Visits = 1
           /\ r.Metadata.CreatedAt < now
           /\ CountAt(h.counts, CountsIndexFor(h, r.Metadata.CreatedAt)) = 1

\* token t is the suffix of a stored record, or a custom suffix that a 200
\* answer of /shorten/ has bound
KnownToken(t) == t \in Records \/ \E x \in returned : x[2] = t

\* C13 (requests one after the other): a redirect of a token that is neither
\* a stored suffix nor a bound custom suffix writes nothing and is answered
\* 404 (or 500 when the backend fails)
C13_ResolveMissNotFound ==
    [][\A p \in Procs :
         (req[p].op = "redirect" /\ pc'[p] # pc[p] /\ ~KnownToken(req[p].token))
         => /\ store' = store
            /\ pc'[p] = "idle" => (answer'.code = 404 \/ IsBackendError(answer'))]_vars

\* no key of the store is t or the hash of t
AbsentToken(t) == t \notin DOMAIN store /\ Sha256Hex(t) \notin DOMAIN store

\* C14 (requests one after the other): a stats request for a token that no
\* key of the store leads to is answered 404 (or 500 when the backend fails)
C14_StatsMissNotFound ==
    (answer.req.op = "info" /\ AbsentToken(answer.req.token))
    => (answer.code = 404 \/ IsBackendError(answer))

\* C15: a /shorten/ request with an empty url is answered 400 "required
\* param 'url' is empty" in the step that accepts it, which leaves the
\* store and every worker as they were; no worker ever serves such a
\* request, so no backend call is made and no suffix is drawn for it
C15_EmptyUrlRejected ==
    /\ [](\A p \in Procs : req[p].op = "shorten" => req[p].url # "")
    /\ [][(answer'.req.op = "shorten" /\ answer'.req.url = "")
            => /\ answer'.code = 400
               /\ answer'.msg = "required param 'url' is empty"
               /\ store' = store
               /\ pc' = pc]_vars

\* C15 witness: the 400 answer to an empty url with a custom suffix, given
\* while the store holds an entry under the hash of the empty string
C15_Witness ==
    /\ answer.req.op = "shorten" /\ answer.req.url = "" /\ answer.req.custom # ""
    /\ answer.code = 400
    /\ Sha256Hex("") \in DOMAIN store

\* C16 (overlapping requests, no backend failure): no step lowers the
\* visits of a stored record that keeps its original url
C16_VisitsNeverDecrease ==
    [][nfault = 0 =>
         \A s \in Records :
            RecordAt(s)'.Original = RecordAt(s).Original
            => RecordAt(s)'.Metadata.Visits >= RecordAt(s).Metadata.Visits]_vars

PointerAt(k) == StrOf(GetResult(store, k).val)

\* C18 (requests one after the other): the record that the by-original
\* lookup of a url finds has that url as its original
C18_OriginalLookupFindsOwnRecord ==
    \A u \in Urls \ {""} :
       PointerAt(Sha256Hex(u)) \in Records
       => RecordAt(PointerAt(Sha256Hex(u))).Original = u

\* C19 (requests one after the other): no step of a /shorten/ request
\* without custom suffix creates or changes the entry under the hash of the
\* empty string or of a custom suffix that is no url
C19_NoAliasWriteWithoutAlias ==
    [][\A p \in Procs :
         (req[p].op = "shorten" /\ req[p].custom = "" /\ pc'[p] # pc[p])
         => \A a \in PureAliases \cup {""} :
              /\ Sha256Hex(a) \in DOMAIN store' => Sha256Hex(a) \in DOMAIN store
              /\ Sha256Hex(a) \in DOMAIN store
                 => store'[Sha256Hex(a)] = store[Sha256Hex(a)]]_vars

\* the record RedirectHandler serves for token t: the record stored under t,
\* else the record that the entry under the hash of t leads to, else none
ResolveTarget(t) ==
    IF t \in Records THEN t
    ELSE IF PointerAt(Sha256Hex(t)) \in Records THEN PointerAt(Sha256Hex(t))
    ELSE ""

\* the 200 answer to the request sent again after the failed one
RetryAnswered ==
    /\ answer.req.op = "shorten" /\ answer.code = 200
    /\ nreq = RetryAt /\ nfault >= 1

\* C20 (a failed /shorten/ sent again, no request in between): when the
\* second attempt is answered 200 with suffix s, the by-original entry of
\* the url leads to s, a redirect of the custom suffix serves record s, and
\* every index entry holds the suffix of a stored record; and all 200
\* answers for one url, before and after, carry the same suffix
C20_RetrySafety ==
    /\ RetryAnswered =>
         /\ answer.body.Default \in Records
         /\ PointerAt(Sha256Hex(answer.req.url)) = answer.body.Default
         /\ answer.req.custom # "" => ResolveTarget(answer.req.custom) = answer.body.Default
         /\ \A k \in Pointers : store[k].str \in Records
    /\ \A t1 \in returned, t2 \in returned : t1[1] = t2[1] => t1[3] = t2[3]

\* C21 (requests one after the other): the histogram of every stored record
\* decodes, and the histogram of a record not yet visited decodes to what
\* initMetadata encoded: the same counts, total, start time and end time
C21_HistogramRoundTrip ==
    \A s \in Records :
       LET m == RecordAt(s).Metadata
           h == NewHist(m.CreatedAt)
           d == Decode(m.EncodedHist)
       IN  /\ DecodeOk(m.EncodedHist)
           /\ m.Visits = 0 =>
                /\ d.counts = h.counts
                /\ d.totalCount = h.totalCount
                /\ d.startTime = h.startTime
                /\ d.endTime = h.endTime

\* C22 (requests one after the other): a /shorten/ request whose custom
\* suffix is the suffix of a stored record other than its own is answered
\* "already in use" at the in-use check (no backend call having failed),
\* and no string is the suffix of one record and a custom suffix bound to another
C22_AliasEqualToSuffixRejected ==
    /\ [][\A p \in Procs :
            (pc[p] = "checkCustom" /\ pc'[p] # "checkCustom" /\ nfault = 0
               /\ req[p].custom \in Records /\ req[p].custom # shortUrl[p].Default)
            => IsAliasInUse(answer')]_vars
    /\ [](\A a \in Customs \ {""} :
            (a \in Records /\ PointerAt(Sha256Hex(a)) \in Records)
            => PointerAt(Sha256Hex(a)) = a)

\* a redirect of token t serves a record whose original url is u
ResolvesTo(t, u) ==
    ResolveTarget(t) \in Records /\ RecordAt(ResolveTarget(t)).Original = u

\* C23 (requests one after the other, no backend failure): when /shorten/
\* answers 200 for a url with custom suffix b after an earlier 200 for the
\* same url with another custom suffix a, both answers carry the same
\* suffix, the stored record has custom suffix b, and redirects of a and of
\* b both serve a record of that url
C23_SeveralAliasesOneRecord ==
    (answer.req.op = "shorten" /\ answer.code = 200 /\ answer.req.custom # ""
       /\ nfault = 0)
    => \A t \in returned :
         (t[1] = answer.req.url /\ t[2] \notin {"", answer.req.custom})
         => /\ t[3] = answer.body.Default
            /\ RecordAt(answer.body.Default).Custom = answer.req.custom
            /\ ResolvesTo(t[2], answer.req.url)
            /\ ResolvesTo(answer.req.custom, answer.req.url)

\* the by-original lookup of url u finds a stored record
IsHit(u) == PointerAt(Sha256Hex(u)) \in Records

\* C24 (requests one after the other): a /shorten/ request for a url that
\* the by-original lookup finds, with no custom suffix or with the one the
\* record holds, changes no record and adds none, and is answered 200 with
\* the suffix of that record (or 500 when the backend fails)
C24_HitLeavesRecordUnchanged ==
    [][\A p \in Procs :
         (/\ req[p].op = "shorten" /\ pc'[p] # pc[p]
          /\ IsHit(req[p].url)
          /\ req[p].custom \in {"", RecordAt(PointerAt(Sha256Hex(req[p].url))).Custom})
         => /\ Records' = Records
            /\ \A s \in Records : store'[s] = store[s]
            /\ pc'[p] = "idle"
               => \/ IsBackendError(answer')
                  \/ /\ answer'.code = 200
                     /\ answer'.body.Default = PointerAt(Sha256Hex(req[p].url))]_vars

\* the labels at which ShortUrlHandler is about to write
WriteLabels == {"write1", "write2", "write3"}

\* C25: "already in use" is answered only by the in-use check, and no step
\* that a /shorten/ request takes up to and including that check changes
\* the store: a rejected request has written no record and no index entry
C25_AliasInUseWritesNothing ==
    [][/\ IsAliasInUse(answer')
          => \E p \in Procs : pc[p] = "checkCustom" /\ pc'[p] = "idle"
       /\ \A p \in Procs :
            (req[p].op = "shorten" /\ pc'[p] # pc[p] /\ pc[p] \notin WriteLabels)
            => store' = store]_vars

\* C25 witness: "already in use" answered to a request for a url that the
\* by-original lookup does not find: its suffix had been drawn
C25_Witness ==
    /\ IsAliasInUse(answer)
    /\ ~IsHit(answer.req.url)
    /\ \A s \in Records : RecordAt(s).Original # answer.req.url

\* C26 (requests one after the other): the first write of a /shorten/
\* request that stores a record under a new suffix stores it with no visit,
\* with the creation instant as created_at, and with a histogram that
\* decodes to no counts, total 0, and the 30 days from the creation instant
\* as its start and end time
C26_NewRecordInitialState ==
    [][\A p \in Procs :
         (pc[p] = "write1" /\ pc'[p] = "write2" /\ shortUrl[p].Default \notin Records)
         => LET m == store'[shortUrl[p].Default].json.Metadata
                d == Decode(m.EncodedHist)
            IN  /\ m.Visits = 0
                /\ m.CreatedAt = now
                /\ DecodeOk(m.EncodedHist)
                /\ d.counts = <<>> /\ d.totalCount = 0
                /\ d.startTime = now
                /\ d.endTime = now + ThirtyDays]_vars

\* instant t is more than 30 days after the creation of the record with
\* metadata m
OutsideWindow(m, t) == t > m.CreatedAt + ThirtyDays

\* C27 (requests one after the other): no redirect gets past RecordValue
\* with a timestamp more than 30 days after the creation of its record, and
\* no stored histogram holds a count for such an instant
C27_VisitOutsideWindowNotCounted ==
    /\ \A p \in Procs :
         pc[p] = "updateSet" => ~OutsideWindow(shortUrl[p].Metadata, now)
    /\ \A s \in Records :
         LET m == RecordAt(s).Metadata
             h == Decode(m.EncodedHist)
         IN  \A t \in Instants :
               OutsideWindow(m, t) => CountAt(h.counts, CountsIndexFor(h, t)) = 0

\* C28 (requests one after the other): the suffix generateUniqueSuffix
\* returns is a key of the store neither at its check nor when the record
\* is written: a worker that writes a record under the suffix of a stored
\* record is serving a url whose by-original entry leads to that record
C28_SequentialSuffixFreshness ==
    /\ [][\A p \in Procs :
            (pc[p] = "generateUniqueSuffix"
               /\ pc'[p] \notin {"generateUniqueSuffix", "idle"})
            => /\ shortUrl'[p].Default \in Suffixes
               /\ shortUrl'[p].Default \notin DOMAIN store]_vars
    /\ [](\A p \in Procs :
            (pc[p] = "write1" /\ shortUrl[p].Default \in Records)
            => PointerAt(Sha256Hex(req[p].url)) = shortUrl[p].Default)

\* C28 witness: a new url is about to be written under a suffix that no
\* record has, while a record of another url is stored
C28_Witness ==
    \E p \in Procs :
       /\ pc[p] = "write1" /\ shortUrl[p].Default \notin DOMAIN store
       /\ \E s \in Records : RecordAt(s).Original # shortUrl[p].Original

\* some suffix is not a key of the store
SomeSuffixUnused == \E sfx \in Suffixes : sfx \notin DOMAIN store

\* C29 (requests one after the other, fair draw): a worker in the loop of
\* generateUniqueSuffix while some suffix is unused eventually leaves the
\* loop; while every suffix is in use it leaves the loop only by a backend
\* error
C29_SuffixGenerationTerminates ==
    /\ \A p \in Procs :
         (pc[p] = "generateUniqueSuffix" /\ SomeSuffixUnused)
            ~> (pc[p] # "generateUniqueSuffix")
    /\ [][\A p \in Procs :
            (pc[p] = "generateUniqueSuffix" /\ ~SomeSuffixUnused)
            => (pc'[p] = "generateUniqueSuffix" \/ IsBackendError(answer'))]_vars

\* C29 witness: a worker in the loop while every suffix holds a record
C29_Witness ==
    /\ \E p \in Procs : pc[p] = "generateUniqueSuffix"
    /\ \A sfx \in Suffixes : sfx \in Records

\* C30 (requests one after the other): no step of a stats request changes
\* the store; with no backend failure, a stats request for the suffix of a
\* stored record reports the metadata of that record, and one for a custom
\* suffix that a 200 answer bound reports the metadata of the record its
\* index entry leads to
C30_StatsReadOnly ==
    /\ [][\A p \in Procs :
            (req[p].op = "info" /\ pc'[p] # pc[p]) => store' = store]_vars
    /\ [](answer.req.op = "info" /\ nfault = 0
          => LET t == answer.req.token
                 s == PointerAt(Sha256Hex(t))
             IN  /\ t \in Records
                    => answer.code = 200 /\ answer.body.Metadata = RecordAt(t).Metadata
                 /\ (s \in Records /\ \E x \in returned : x[2] = t /\ x[3] = s)
                    => answer.code = 200 /\ answer.body.Metadata = RecordAt(s).Metadata)

\* the 302 answer to a redirect of token t, with Location u
Resolved(t, u) ==
    /\ answer.req.op = "redirect" /\ answer.req.token = t
    /\ answer.code = 302 /\ answer.body.Original = u

\* C31 (requests one after the other, no backend failure): once a redirect
\* of token t has been answered 302 with Location u, every later redirect of
\* t is answered 302 with Location u, whatever was created in between
C31_ResolutionStable ==
    \A t \in Tokens, u \in Urls :
        [](Resolved(t, u)
           => []((answer.req.op = "redirect" /\ answer.req.token = t /\ nfault = 0)
                 => Resolved(t, u)))

\* C32 (requests one after the other, backend failures included): whenever
\* no request is being served, every record with a non-empty Custom has the
\* entry under the hash of its Custom holding its own suffix, and no two
\* records have the same non-empty Custom
C32_RecordIndexAgreeOnAlias ==
    Quiet =>
        /\ \A s \in Records :
              RecordAt(s).Custom # ""
              => PointerAt(Sha256Hex(RecordAt(s).Custom)) = s
        /\ \A s1 \in Records, s2 \in Records :
              (RecordAt(s1).Custom # "" /\ RecordAt(s1).Custom = RecordAt(s2).Custom)
              => s1 = s2

\* C33 (statistics requests that overlap): when a statistics request for a
\* token that leads to record s is answered 200, the answer carries the
\* metadata stored for s and histogram.csv holds the rows of the histogram
\* of s and no others
C33_StatsRequestsIndependent ==
    (answer.req.op = "info" /\ answer.code = 200 /\ ResolveTarget(answer.req.token) # "")
    => LET m == RecordAt(ResolveTarget(answer.req.token)).Metadata
       IN  /\ answer.body.Metadata = m
           /\ csvFile = CsvRows(Decode(m.EncodedHist))

====
